---- MODULE Spec2Model ----
(***************************************************************************)
(* CMS data agent (src/cms_agent.py) and the transport client it drives    *)
(* (src/download_api_data.py): the status record, the three files of the   *)
(* output directory and the operations check_for_updates,                  *)
(* download_latest_data and get_latest_data.                               *)
(*                                                                         *)
(* Time is counted in whole hours.  One operation is one action: the agent *)
(* is single-threaded and every operation runs to completion.              *)
(***************************************************************************)
EXTENDS Integers, Sequences, FiniteSets, TLC

\* ------------------------------------------------------------------ bounds
MaxCount == 1       \* record counts reported by the source: 0..MaxCount
MaxTime == 2        \* the clock runs from 1 to MaxTime
MaxAge == 1         \* max_age_hours is drawn from 0..MaxAge
MaxRecords == 11    \* records of a snapshot given to validate_data: 0..MaxRecords
MaxLacking == 2     \* records of such a snapshot that lack a field: 0..MaxLacking

\* --------------------------------------------------------------- constants
datetime_min == 0   \* datetime.min, the "never" value of last_update
max_retries == 3    \* the default of the constructor argument max_retries

None == "None"

\* A file of the output directory: absent, complete, or truncated (opened with
\* 'w' and not completely written).  The content is kept as a sequence.
NoFile == [state |-> "absent", content |-> <<>>]
Truncated == [state |-> "truncated", content |-> <<>>]
File(content) == [state |-> "complete", content |-> content]
\* A file holding a JSON document that is not a list of records (the transport
\* client dumps whatever JSON the source answered).
ObjectFile == [state |-> "object", content |-> <<>>]
NoResp == [kind |-> "none", body |-> <<>>]

Counts == 0..MaxCount
MaxAges == 0..MaxAge

\* Two provider datasets the source can serve (cms_full_dataset.json bodies).
Row(ccn, rating) ==
    [cms_certification_number_ccn |-> ccn, hhcahps_survey_summary_star_rating |-> rating]
Datasets == { <<Row("017000", "4")>>, <<Row("017000", "4"), Row("017001", "5")>> }

\* Bodies the count query can answer with: [{"expression": "<n>"}], or a row
\* whose expression is not a number.
CountBodies ==
    { <<[expression |-> ToString(n)]>> : n \in Counts } \cup { <<[expression |-> "n/a"]>> }

\* What one download_json_data call can end in: "request_error" is any failure
\* before the target file is opened (the request, the HTTP status, the JSON
\* decoding of the body, the open itself), "write_error" a failure of the dump
\* into the opened file.
Responses(bodies) ==
    { [kind |-> k, body |-> <<>>] : k \in {"request_error", "write_error"} }
      \cup { [kind |-> "ok", body |-> b] : b \in bodies }
ProbeResponses == Responses(CountBodies)
FetchResponses == Responses(Datasets)

\* Outcomes of the agent's own file operations.
IoOk == [read |-> "ok", remove |-> "ok", save |-> "ok", handler_save |-> "ok"]
NoIoFaults == { IoOk }
\* At most one of the read, the removal and the save fails in one operation;
\* the save of the exception handler can fail after any of them.
IoFaults ==
    { io \in [read : {"ok", "fail"}, remove : {"ok", "fail"},
              save : {"ok", "write_error"},
              handler_save : {"ok", "write_error"}] :
        Cardinality({ k \in {"read", "remove", "save"} : io[k] # "ok" }) <= 1 }

\* The faults of the status save alone: what makes an operation raise.
SaveFaults == { io \in IoFaults : io.read = "ok" /\ io.remove = "ok" }

VARIABLES
    status,       \* CMSDataAgent.status, a DataUpdateStatus
    status_file,  \* agent_status.json
    data_file,    \* cms_full_dataset.json
    data_mtime,   \* its modification time (0 while it does not exist)
    count_file,   \* temp_count.json
    now,          \* the wall clock
    call,         \* the operation that ran last: arguments, responses, result
    loop          \* the recurring loop that drives the agent, if any

vars == <<status, status_file, data_file, data_mtime, count_file, now, call, loop>>

\* ------------------------------------------------------ the status record
\* datetime.isoformat and datetime.fromisoformat on whole hours.
isoformat(t) == <<"T", ToString(t)>>
fromisoformat(s) == CHOOSE t \in 0..MaxTime : ToString(t) = s[2]

\* Variant: last_check is the never sentinel, not the time of construction.
default_status_epoch(t) ==
    [last_check |-> datetime_min, last_update |-> datetime_min, current_record_count |-> 0,
     previous_record_count |-> 0, update_available |-> TRUE, last_error |-> None]

\* Variant: the default status reports no update.
default_status_settled(t) ==
    [last_check |-> t, last_update |-> datetime_min, current_record_count |-> 0,
     previous_record_count |-> 0, update_available |-> FALSE, last_error |-> None]

\* "# Return default status".
default_status(t) ==
    [last_check |-> t, last_update |-> datetime_min, current_record_count |-> 0,
     previous_record_count |-> 0, update_available |-> TRUE, last_error |-> None]

\* Variant: the error message is not written to the record.
status_data_without_error(st) ==
    [last_check |-> isoformat(st.last_check),
     last_update |-> isoformat(st.last_update),
     current_record_count |-> st.current_record_count,
     previous_record_count |-> st.previous_record_count,
     update_available |-> st.update_available,
     last_error |-> None]

\* The dict _save_status dumps.
status_data(st) ==
    [last_check |-> isoformat(st.last_check),
     last_update |-> isoformat(st.last_update),
     current_record_count |-> st.current_record_count,
     previous_record_count |-> st.previous_record_count,
     update_available |-> st.update_available,
     last_error |-> st.last_error]

load_status(file, t) ==
    IF file.state = "complete"
    THEN LET data == file.content[1]
         IN [last_check |-> fromisoformat(data.last_check),
             last_update |-> fromisoformat(data.last_update),
             current_record_count |-> data.current_record_count,
             previous_record_count |-> data.previous_record_count,
             update_available |-> data.update_available,
             last_error |-> data.last_error]
    ELSE default_status(t)

\* The files and the status an operation works on.
World == [status |-> status, status_file |-> status_file, data_file |-> data_file,
          data_mtime |-> data_mtime, count_file |-> count_file]

\* _save_status: the dump into agent_status.json; raised when open or write fails.
save_status(w, outcome) ==
    CASE outcome = "ok" ->
            [w |-> [w EXCEPT !.status_file = File(<<status_data(w.status)>>)],
             raised |-> FALSE]
      [] outcome = "open_error" -> [w |-> w, raised |-> TRUE]
      [] OTHER -> [w |-> [w EXCEPT !.status_file = Truncated], raised |-> TRUE]

\* ----------------------------------------------------- the transport client
\* download_json_data: the file at the target path afterwards, and the result.
\* The response is parsed before the target is opened, so a request or JSON
\* error leaves the file alone; open(path, 'w') truncates it before the dump.
download_json_data(file, resp) ==
    CASE resp.kind = "ok" -> [success |-> TRUE, file |-> File(resp.body), written |-> TRUE]
      [] resp.kind = "write_error" -> [success |-> FALSE, file |-> Truncated, written |-> TRUE]
      [] OTHER -> [success |-> FALSE, file |-> file, written |-> FALSE]

\* --------------------------------------------------- check_for_updates
\* int(count_data[0]['expression']) on the scratch file: IndexError on an
\* empty list and ValueError on a non-number are ok = FALSE.
parse_count(file) ==
    IF file.state # "complete" \/ Len(file.content) = 0
    THEN [ok |-> FALSE, count |-> 0]
    ELSE LET e == file.content[1].expression
         IN IF \E n \in Counts : ToString(n) = e
            THEN [ok |-> TRUE, count |-> CHOOSE n \in Counts : ToString(n) = e]
            ELSE [ok |-> FALSE, count |-> 0]

\* Variant: the failed probe leaves last_error cleared.
probe_failed_status_cleared(st) == [st EXCEPT !.last_error = None]

\* "if not success": the status of a probe whose transport call failed.
probe_failed_status(st) == [st EXCEPT !.last_error = "Failed to check record count"]

\* Variant: the new count is stored without moving the old one to previous.
update_status_no_rotation(st, new_count, t) ==
    [st EXCEPT !.current_record_count = new_count,
               !.last_check = t,
               !.update_available = new_count > st.current_record_count,
               !.last_error = None]

\* Variant: an equal count is reported as an update.
update_status_geq(st, new_count, t) ==
    [st EXCEPT !.previous_record_count = st.current_record_count,
               !.current_record_count = new_count,
               !.last_check = t,
               !.update_available = new_count >= st.current_record_count,
               !.last_error = None]

\* Variant: any change of the count is reported as an update.
update_status_neq(st, new_count, t) ==
    [st EXCEPT !.previous_record_count = st.current_record_count,
               !.current_record_count = new_count,
               !.last_check = t,
               !.update_available = new_count # st.current_record_count,
               !.last_error = None]

\* Variant: the probe stamps last_update as well as last_check.
update_status_touches_update(st, new_count, t) ==
    [st EXCEPT !.previous_record_count = st.current_record_count,
               !.current_record_count = new_count,
               !.last_check = t,
               !.last_update = t,
               !.update_available = new_count > st.current_record_count,
               !.last_error = None]

\* "# Update status": the rotation of the counts after a parsed probe.
update_status(st, new_count, t) ==
    LET s1 == [st EXCEPT !.previous_record_count = st.current_record_count]
        s2 == [s1 EXCEPT !.current_record_count = new_count]
        s3 == [s2 EXCEPT !.last_check = t]
        s4 == [s3 EXCEPT !.update_available = new_count > s3.previous_record_count]
    IN [s4 EXCEPT !.last_error = None]

NoData == [absent |-> TRUE, rows |-> <<>>]

Result(w, ret, raised, outcome, calls, probe, fetch) ==
    [w |-> w, ret |-> ret, raised |-> raised, outcome |-> outcome,
     calls |-> calls, probe |-> probe, fetch |-> fetch, data |-> NoData]

\* "except Exception as e" of check_for_updates: a raise of the save in the
\* handler leaves the method.
check_handler(w, p, io) ==
    LET w1 == [w EXCEPT !.status.last_error = "Error checking for updates"]
        s == save_status(w1, io.handler_save)
    IN Result(s.w, FALSE, s.raised, "error", <<"count_records">>, p, NoResp)

check_for_updates(w, t, p, io) ==
    LET d == download_json_data(w.count_file, p)
        w0 == [w EXCEPT !.count_file = d.file]
    IN IF ~d.success
       THEN LET s == save_status([w0 EXCEPT !.status = probe_failed_status(w0.status)],
                                 io.save)
            IN IF s.raised
               THEN check_handler(s.w, p, io)
               ELSE Result(s.w, FALSE, FALSE, "failed", <<"count_records">>, p, NoResp)
       ELSE IF io.read # "ok" \/ ~parse_count(w0.count_file).ok \/ io.remove # "ok"
       THEN check_handler(w0, p, io)
       ELSE LET new_count == parse_count(w0.count_file).count
                w1 == [w0 EXCEPT !.count_file = NoFile,
                                 !.status = update_status(w0.status, new_count, t)]
                s == save_status(w1, io.save)
            IN IF s.raised
               THEN check_handler(s.w, p, io)
               ELSE Result(s.w, s.w.status.update_available, FALSE, "ok",
                           <<"count_records">>, p, NoResp)

\* ------------------------------------------------ download_latest_data
\* Variant: the force argument is ignored.
skip_download_ignores_force(force, update_available) == ~update_available

\* Variant: the short-circuit is never taken.
skip_download_never(force, update_available) == FALSE

\* "if not force and not self.status.update_available": the short-circuit.
skip_download(force, update_available) == ~force /\ ~update_available

\* Variant: the flag is left set after the fetch.
fetched_status_keeps_flag(st, t) == [st EXCEPT !.last_update = t, !.last_error = None]

\* Variant: last_update is not advanced.
fetched_status_keeps_time(st, t) ==
    [st EXCEPT !.update_available = FALSE, !.last_error = None]

\* "if success": the status after a fetch that succeeded.
fetched_status(st, t) ==
    [st EXCEPT !.last_update = t, !.update_available = FALSE, !.last_error = None]

\* Variant: a failed fetch records no error.
fetch_failed_status_silent(st) == st

\* Variant: a failed fetch clears update_available as a successful one does.
fetch_failed_status_clears_flag(st) ==
    [st EXCEPT !.update_available = FALSE, !.last_error = "Failed to download data"]

\* "else": the status after a fetch the transport client reported as failed.
fetch_failed_status(st) == [st EXCEPT !.last_error = "Failed to download data"]

download_handler(w, f, io) ==
    LET w1 == [w EXCEPT !.status.last_error = "Error downloading data"]
        s == save_status(w1, io.handler_save)
    IN Result(s.w, FALSE, s.raised, "error", <<"all_data">>, NoResp, f)

download_latest_data(w, t, force, f, io) ==
    IF skip_download(force, w.status.update_available)
    THEN Result(w, TRUE, FALSE, "skipped", <<>>, NoResp, NoResp)
    ELSE LET d == download_json_data(w.data_file, f)
             w0 == [w EXCEPT !.data_file = d.file,
                             !.data_mtime = IF d.written THEN t ELSE w.data_mtime]
             st == IF d.success THEN fetched_status(w0.status, t)
                                ELSE fetch_failed_status(w0.status)
             s == save_status([w0 EXCEPT !.status = st], io.save)
         IN IF s.raised
            THEN download_handler(s.w, f, io)
            ELSE Result(s.w, d.success, FALSE, IF d.success THEN "ok" ELSE "failed",
                        <<"all_data">>, NoResp, f)

\* ------------------------------------------------------ get_latest_data
\* Variant: every call is treated as needing an update.
needs_update_always(exists, mtime, t, max_age_hours) == TRUE

\* "# Check if we need to update data": file missing, or older than max_age_hours.
needs_update(exists, mtime, t, max_age_hours) ==
    IF ~exists THEN TRUE ELSE (t - mtime) > max_age_hours

\* "# Load and return data": json.load of the snapshot; None when it cannot be
\* opened or parsed.
load_data(file) ==
    IF file.state \in {"complete", "object"}
    THEN [absent |-> FALSE, rows |-> file.content] ELSE NoData

\* The second half of get_latest_data, after the probe (if any) has run.
get_after_check(c, t, f, io) ==
    IF c.ret \/ c.w.data_file.state = "absent"
    THEN LET d == download_latest_data(c.w, t, FALSE, f, io)
             r == [d EXCEPT !.calls = c.calls \o d.calls, !.probe = c.probe]
         IN IF d.raised \/ ~d.ret
            THEN r
            ELSE [r EXCEPT !.data = load_data(d.w.data_file)]
    ELSE [c EXCEPT !.data = load_data(c.w.data_file)]

get_latest_data(w, t, max_age_hours, p, f, ioc, iod) ==
    IF needs_update(w.data_file.state # "absent", w.data_mtime, t, max_age_hours)
    THEN LET c == check_for_updates(w, t, p, ioc)
         IN IF c.raised THEN c ELSE get_after_check(c, t, f, iod)
    ELSE [Result(w, FALSE, FALSE, "cached", <<>>, NoResp, NoResp)
            EXCEPT !.data = load_data(w.data_file)]

\* ------------------------------------------------ get_status, validate_data
\* The projection of the status, with the derived data_age_hours.
get_status(st, t) ==
    [last_check |-> isoformat(st.last_check),
     last_update |-> isoformat(st.last_update),
     current_record_count |-> st.current_record_count,
     previous_record_count |-> st.previous_record_count,
     update_available |-> st.update_available,
     last_error |-> st.last_error,
     data_age_hours |-> t - st.last_update]

RequiredFields ==
    {"cms_certification_number_ccn", "hhcahps_survey_summary_star_rating"}
AllowedRatings == {"1", "2", "3", "4", "5", ""}
SampleSize == 10
Min(a, b) == IF a < b THEN a ELSE b

\* Variant: only the first record is looked at.
has_required_fields_first(data) ==
    Len(data) = 0 \/ RequiredFields \subseteq DOMAIN data[1]

\* all(... for record in data[:10])
has_required_fields(data) ==
    \A i \in 1..Min(Len(data), SampleSize) : RequiredFields \subseteq DOMAIN data[i]

NoReport ==
    [valid |-> FALSE, error |-> None, record_count |-> 0, has_required_fields |-> FALSE,
     valid_ratings |-> FALSE, unique_providers |-> 0]

\* The report on the snapshot. A missing file is reported as not found; a file
\* json.load cannot parse, or whose document is not a list of records (the
\* slice, the "in" test or .get raises), goes to the except clause.
validate_data(file) ==
    IF file.state = "absent"
    THEN [NoReport EXCEPT !.error = "Data file not found"]
    ELSE IF file.state # "complete"
    THEN [NoReport EXCEPT !.error = "exception"]
    ELSE LET data == file.content
             rated == { i \in 1..Len(data) :
                          /\ "hhcahps_survey_summary_star_rating" \in DOMAIN data[i]
                          /\ data[i].hhcahps_survey_summary_star_rating # "" }
         IN [valid |-> TRUE,
             error |-> None,
             record_count |-> Len(data),
             has_required_fields |-> has_required_fields(data),
             valid_ratings |->
                 \A i \in rated : data[i].hhcahps_survey_summary_star_rating \in AllowedRatings,
             unique_providers |->
                 Cardinality({ IF "cms_certification_number_ccn" \in DOMAIN data[i]
                               THEN data[i].cms_certification_number_ccn ELSE ""
                               : i \in 1..Len(data) })]

\* ------------------------------------------------------------ the machine
NoCall ==
    [op |-> "init", force |-> FALSE, max_age_hours |-> 0, ret |-> FALSE,
     raised |-> FALSE, outcome |-> "none", calls |-> <<>>, probe |-> NoResp,
     fetch |-> NoResp, data |-> NoData, after |-> "none", report |-> NoReport]

\* How the call c went if it was download_latest_data(force=False), else "none".
UnforcedDownload(c) == IF c.op = "download" /\ ~c.force THEN c.outcome ELSE "none"

\* No recurring loop runs: the operations are called directly.
NoLoop ==
    [mode |-> "none", pc |-> "idle", running |-> FALSE, auto_update |-> FALSE,
     stopped |-> FALSE]

\* The agent is constructed on a directory without a status file, or with one
\* that cannot be parsed.
Init ==
    /\ status_file \in {NoFile, Truncated}
    /\ status = load_status(status_file, 1)
    /\ loop = NoLoop
    /\ data_file = NoFile
    /\ data_mtime = 0
    /\ count_file = NoFile
    /\ now = 1
    /\ call = NoCall

\* An operation r has run on World: its effects, and the record of the call.
Apply(r, op, force, max_age_hours) ==
    /\ status' = r.w.status
    /\ status_file' = r.w.status_file
    /\ data_file' = r.w.data_file
    /\ data_mtime' = r.w.data_mtime
    /\ count_file' = r.w.count_file
    /\ call' = [op |-> op, force |-> force, max_age_hours |-> max_age_hours,
                ret |-> r.ret, raised |-> r.raised, outcome |-> r.outcome,
                calls |-> r.calls, probe |-> r.probe, fetch |-> r.fetch,
                data |-> r.data, after |-> UnforcedDownload(call), report |-> NoReport]
    /\ UNCHANGED now

\* The operations are called directly while no loop has been started.
Direct == loop.mode = "none" /\ UNCHANGED loop

\* The outcomes of the file operations an operation can meet: an operation
\* that starts no exchange performs none, the scratch file is read and removed
\* only after an exchange that succeeded, and the save of the exception handler
\* has an outcome only when the handler runs.
CheckIos(w, p, ios) ==
    IF p = NoResp THEN {IoOk}
    ELSE { io \in ios :
             /\ p.kind # "ok" => (io.read = "ok" /\ io.remove = "ok")
             /\ \/ io.handler_save = "ok"
                \/ check_for_updates(w, now, p, io).outcome = "error" }
DownloadIos(w, force, f, ios) ==
    IF f = NoResp THEN {IoOk}
    ELSE { io \in ios :
             /\ io.read = "ok" /\ io.remove = "ok"
             /\ \/ io.handler_save = "ok"
                \/ download_latest_data(w, now, force, f, io).outcome = "error" }

CheckForUpdates(ios) ==
    /\ Direct
    /\ \E p \in ProbeResponses : \E io \in CheckIos(World, p, ios) :
        LET r == check_for_updates(World, now, p, io)
        IN Apply(r, "check", FALSE, 0)

\* The responses an operation can meet: NoResp stands for the exchange it never
\* starts, so that a call the code does not make is given no outcome.
FetchesOf(force) ==
    IF skip_download(force, status.update_available) THEN {NoResp} ELSE FetchResponses
ProbesOf(m) ==
    IF needs_update(data_file.state # "absent", data_mtime, now, m)
    THEN ProbeResponses ELSE {NoResp}
FetchesAfter(m, p, io) ==
    IF p = NoResp THEN {NoResp}
    ELSE LET c == check_for_updates(World, now, p, io)
         IN IF ~c.raised /\ (c.ret \/ c.w.data_file.state = "absent")
               /\ ~skip_download(FALSE, c.w.status.update_available)
            THEN FetchResponses ELSE {NoResp}

DownloadLatestData(ios) ==
    /\ Direct
    /\ \E force \in BOOLEAN :
        \E f \in FetchesOf(force) : \E io \in DownloadIos(World, force, f, ios) :
            LET r == download_latest_data(World, now, force, f, io)
            IN Apply(r, "download", force, 0)

GetLatestData(ios) ==
    /\ Direct
    /\ \E m \in MaxAges :
        \E p \in ProbesOf(m) : \E ioc \in CheckIos(World, p, ios) :
            \E f \in FetchesAfter(m, p, ioc) :
                \E iod \in DownloadIos(check_for_updates(World, now, p, ioc).w, FALSE, f, ios) :
                LET r == get_latest_data(World, now, m, p, f, ioc, iod)
                IN Apply(r, "get", FALSE, m)

\* Variant: validate_data deletes a snapshot it cannot parse.
ValidateDataDiscards ==
    /\ Direct
    /\ call' = [NoCall EXCEPT !.op = "validate", !.ret = validate_data(data_file).valid,
                              !.report = validate_data(data_file)]
    /\ data_file' = IF data_file.state = "truncated" THEN NoFile ELSE data_file
    /\ UNCHANGED <<status, status_file, data_mtime, count_file, now>>

\* validate_data and get_status return a report and assign nothing.
ValidateData ==
    /\ Direct
    /\ call' = [NoCall EXCEPT !.op = "validate", !.ret = validate_data(data_file).valid,
                              !.report = validate_data(data_file)]
    /\ UNCHANGED <<status, status_file, data_file, data_mtime, count_file, now>>

GetStatus ==
    /\ Direct
    /\ call' = [NoCall EXCEPT !.op = "status",
                              !.ret = get_status(status, now).update_available]
    /\ UNCHANGED <<status, status_file, data_file, data_mtime, count_file, now>>

\* An hour passes.
Tick ==
    /\ now < MaxTime
    /\ now' = now + 1
    /\ UNCHANGED <<status, status_file, data_file, data_mtime, count_file, call, loop>>

\* The process ends and a new agent is constructed on the same directory.
Restart ==
    /\ Direct
    /\ status' = load_status(status_file, now)
    /\ call' = NoCall
    /\ UNCHANGED <<status_file, data_file, data_mtime, count_file, now>>

Next ==
    \/ CheckForUpdates(NoIoFaults)
    \/ DownloadLatestData(NoIoFaults)
    \/ GetLatestData(NoIoFaults)
    \/ ValidateData
    \/ GetStatus
    \/ Tick
    \/ Restart

Spec == Init /\ [][Next]_vars

\* The same machine when the file operations of check_for_updates and
\* download_latest_data themselves (reading and removing temp_count.json,
\* writing agent_status.json) can fail as well, called directly or from
\* get_latest_data.
NextIO ==
    \/ CheckForUpdates(IoFaults)
    \/ DownloadLatestData(IoFaults)
    \/ GetLatestData(IoFaults)
    \/ ValidateData
    \/ GetStatus
    \/ Tick
    \/ Restart

SpecIO == Init /\ [][NextIO]_vars

\* The machine when only the removal of temp_count.json can fail.
RemoveFaults ==
    { io \in IoFaults : io.read = "ok" /\ io.save = "ok" /\ io.handler_save = "ok" }

NextScratch ==
    \/ CheckForUpdates(RemoveFaults)
    \/ DownloadLatestData(NoIoFaults)
    \/ Tick

SpecScratch == Init /\ [][NextScratch]_vars

\* -------------------------------------------------------- recurring loops
\* CMSDataService: the agent is created with auto_update=True and running is
\* False; start() has been called (its coroutine is scheduled as a task) and
\* its body has not run yet. "stopped" records that stop() has been called.
ServiceLoop ==
    [mode |-> "service", pc |-> "created", running |-> FALSE, auto_update |-> TRUE,
     stopped |-> FALSE]
\* run_scheduler: "while True" around the job _scheduled_check, which
\* _setup_scheduler registers for an agent constructed with auto_update=True.
SchedulerLoop ==
    [mode |-> "scheduler", pc |-> "check", running |-> TRUE, auto_update |-> TRUE,
     stopped |-> FALSE]

\* Variant: the fetch is started whatever the probe returned.
service_after_check_always_fetch(r) == IF r.raised THEN "cooldown" ELSE "fetch"

\* Variant: the tick never fetches, whatever check_for_updates returned.
service_after_check_never_fetch(r) == IF r.raised THEN "cooldown" ELSE "sleep"

\* Variant: no except clause around the tick, an exception ends the loop.
service_after_check_unguarded(r) ==
    IF r.raised THEN "done" ELSE IF r.ret THEN "fetch" ELSE "sleep"

\* Where start() goes after check_for_updates: "except Exception" on an
\* exception, "if has_updates" otherwise.
service_after_check(r) ==
    IF r.raised THEN "cooldown" ELSE IF r.ret THEN "fetch" ELSE "sleep"
service_after_fetch(r) == IF r.raised THEN "cooldown" ELSE "sleep"

\* Where _scheduled_check goes after check_for_updates: "if
\* self.check_for_updates() and self.auto_update"; run_scheduler has no
\* exception handler, an exception leaves its loop.
scheduled_after_check(r, auto_update) ==
    IF r.raised THEN "crashed" ELSE IF r.ret /\ auto_update THEN "fetch" ELSE "sleep"
scheduled_after_fetch(r) == IF r.raised THEN "crashed" ELSE "sleep"

\* The first statement of start(): self.running = True.
begin_running(l) == [l EXCEPT !.running = TRUE, !.pc = "test"]

\* asyncio.create_task(service.start())
ServiceCreate ==
    /\ loop = NoLoop /\ call = NoCall
    /\ loop' = ServiceLoop
    /\ UNCHANGED <<status, status_file, data_file, data_mtime, count_file, now, call>>

\* The event loop runs the task for the first time.
ServiceStart ==
    /\ loop.mode = "service" /\ loop.pc = "created"
    /\ loop' = begin_running(loop)
    /\ UNCHANGED <<status, status_file, data_file, data_mtime, count_file, now, call>>

\* "while self.running"
ServiceTest ==
    /\ loop.mode = "service" /\ loop.pc = "test"
    /\ loop' = [loop EXCEPT !.pc = IF loop.running THEN "check" ELSE "done"]
    /\ UNCHANGED <<status, status_file, data_file, data_mtime, count_file, now, call>>

ServiceCheck ==
    /\ loop.mode = "service" /\ loop.pc = "check"
    /\ \E p \in ProbeResponses : \E io \in CheckIos(World, p, SaveFaults) :
        LET r == check_for_updates(World, now, p, io)
        IN /\ Apply(r, "check", FALSE, 0)
           /\ loop' = [loop EXCEPT !.pc = service_after_check(r)]

ServiceFetch ==
    /\ loop.mode = "service" /\ loop.pc = "fetch"
    /\ \E f \in FetchesOf(FALSE) : \E io \in DownloadIos(World, FALSE, f, SaveFaults) :
        LET r == download_latest_data(World, now, FALSE, f, io)
        IN /\ Apply(r, "download", FALSE, 0)
           /\ loop' = [loop EXCEPT !.pc = service_after_fetch(r)]

\* "await asyncio.sleep(self.check_interval_hours * 3600)" returns.
ServiceSleep ==
    /\ loop.mode = "service" /\ loop.pc = "sleep"
    /\ loop' = [loop EXCEPT !.pc = "test"]
    /\ UNCHANGED <<status, status_file, data_file, data_mtime, count_file, now, call>>

\* "await asyncio.sleep(300)" in the except clause returns.
ServiceCooldown ==
    /\ loop.mode = "service" /\ loop.pc = "cooldown"
    /\ loop' = [loop EXCEPT !.pc = "test"]
    /\ UNCHANGED <<status, status_file, data_file, data_mtime, count_file, now, call>>

\* stop()
ServiceStop ==
    /\ loop.mode = "service" /\ ~loop.stopped
    /\ loop' = [loop EXCEPT !.running = FALSE, !.stopped = TRUE]
    /\ UNCHANGED <<status, status_file, data_file, data_mtime, count_file, now, call>>

ServiceStep ==
    ServiceTest \/ ServiceCheck \/ ServiceFetch \/ ServiceSleep \/ ServiceCooldown

SchedulerStart ==
    /\ loop = NoLoop /\ call = NoCall
    /\ loop' = SchedulerLoop
    /\ UNCHANGED <<status, status_file, data_file, data_mtime, count_file, now, call>>

\* The program assigns the agent's auto_update attribute while the loop runs.
SetAutoUpdate ==
    /\ loop.mode = "scheduler"
    /\ \E b \in BOOLEAN : loop' = [loop EXCEPT !.auto_update = b]
    /\ UNCHANGED <<status, status_file, data_file, data_mtime, count_file, now, call>>

\* schedule.run_pending() runs the job: _scheduled_check up to its condition.
ScheduledCheck ==
    /\ loop.mode = "scheduler" /\ loop.pc = "check"
    /\ \E p \in ProbeResponses : \E io \in CheckIos(World, p, SaveFaults) :
        LET r == check_for_updates(World, now, p, io)
        IN /\ Apply(r, "check", FALSE, 0)
           /\ loop' = [loop EXCEPT !.pc = scheduled_after_check(r, loop.auto_update)]

ScheduledFetch ==
    /\ loop.mode = "scheduler" /\ loop.pc = "fetch"
    /\ \E f \in FetchesOf(FALSE) : \E io \in DownloadIos(World, FALSE, f, SaveFaults) :
        LET r == download_latest_data(World, now, FALSE, f, io)
        IN /\ Apply(r, "download", FALSE, 0)
           /\ loop' = [loop EXCEPT !.pc = scheduled_after_fetch(r)]

\* "time.sleep(60)" until the job is due again.
SchedulerSleep ==
    /\ loop.mode = "scheduler" /\ loop.pc = "sleep"
    /\ loop' = [loop EXCEPT !.pc = "check"]
    /\ UNCHANGED <<status, status_file, data_file, data_mtime, count_file, now, call>>

NextLoop ==
    \/ ServiceCreate
    \/ ServiceStart
    \/ ServiceTest
    \/ ServiceCheck
    \/ ServiceFetch
    \/ ServiceSleep
    \/ ServiceCooldown
    \/ ServiceStop
    \/ SchedulerStart
    \/ SetAutoUpdate
    \/ ScheduledCheck
    \/ ScheduledFetch
    \/ SchedulerSleep
    \/ Tick

\* The event loop resumes start() when the sleep of the except clause has
\* elapsed, and start() then evaluates its loop condition.
SpecLoop == Init /\ [][NextLoop]_vars /\ WF_vars(ServiceCooldown) /\ WF_vars(ServiceTest)

\* ------------------------------------------------- snapshots to validate
\* The agent is constructed on a directory that holds a snapshot of an earlier
\* run: up to MaxRecords records, of which up to MaxLacking lack one of the
\* two fields; or a truncated file, a JSON document that is not a list, or
\* no file.
LackingRows ==
    { [cms_certification_number_ccn |-> "017000"],
      [hhcahps_survey_summary_star_rating |-> "4"] }
Snapshot(n, lacking, row) ==
    [i \in 1..n |-> IF i \in lacking THEN row ELSE Row("017000", "4")]
Snapshots ==
    { File(Snapshot(n, lacking, row)) :
        n \in 0..MaxRecords,
        lacking \in { d \in SUBSET (1..MaxRecords) : Cardinality(d) <= MaxLacking },
        row \in LackingRows }
      \cup {NoFile, Truncated, ObjectFile}

InitValidate ==
    /\ status_file = NoFile
    /\ status = load_status(status_file, 1)
    /\ loop = NoLoop
    /\ data_file \in Snapshots
    /\ data_mtime = IF data_file.state = "absent" THEN 0 ELSE 1
    /\ count_file = NoFile
    /\ now = 1
    /\ call = NoCall

NextValidate ==
    \/ ValidateData
    \/ GetStatus
    \/ Tick

SpecValidate == InitValidate /\ [][NextValidate]_vars

\* ------------------------------------------------ writes seen by readers
\* download_latest_data(force=True) with a fetch that succeeds, statement by
\* statement, while other processes (a second agent's validate_data, a
\* dashboard reading agent_status.json) read the two files.
\* open(path, 'w'): the file exists and is empty until the dump has run.
opened_for_writing(file) == Truncated

WritePc(pc) == [NoLoop EXCEPT !.mode = "download", !.pc = pc]

\* download_json_data has the response and opens cms_full_dataset.json.
SnapshotOpen ==
    /\ loop = NoLoop
    /\ loop' = WritePc("dump")
    /\ data_file' = opened_for_writing(data_file)
    /\ data_mtime' = now
    /\ UNCHANGED <<status, status_file, count_file, now, call>>

\* json.dump writes the body; back in download_latest_data the status is
\* updated in memory.
SnapshotDump ==
    /\ loop = WritePc("dump")
    /\ \E f \in { r \in FetchResponses : r.kind = "ok" } :
        /\ data_file' = download_json_data(data_file, f).file
        /\ call' = [NoCall EXCEPT !.op = "download", !.force = TRUE, !.fetch = f,
                                  !.calls = <<"all_data">>]
    /\ data_mtime' = now
    /\ status' = fetched_status(status, now)
    /\ loop' = WritePc("save")
    /\ UNCHANGED <<status_file, count_file, now>>

\* _save_status opens agent_status.json.
StatusOpen ==
    /\ loop = WritePc("save")
    /\ loop' = WritePc("status_dump")
    /\ status_file' = opened_for_writing(status_file)
    /\ UNCHANGED <<status, data_file, data_mtime, count_file, now, call>>

\* json.dump writes the status; download_latest_data returns True.
StatusDump ==
    /\ loop = WritePc("status_dump")
    /\ loop' = NoLoop
    /\ status_file' = save_status(World, "ok").w.status_file
    /\ UNCHANGED <<status, data_file, data_mtime, count_file, now, call>>

\* What the reader found the last time, when the last call was the same read.
FoundBefore(op) == IF call.op = op THEN call.outcome ELSE "none"

\* Another process runs validate_data on the snapshot as it is on disk.
ReadSnapshot ==
    /\ call' = [NoCall EXCEPT !.op = "validate", !.outcome = data_file.state,
                              !.after = FoundBefore("validate"),
                              !.ret = validate_data(data_file).valid,
                              !.report = validate_data(data_file)]
    /\ UNCHANGED <<status, status_file, data_file, data_mtime, count_file, now, loop>>

\* Another process reads agent_status.json as it is on disk.
ReadStatus ==
    /\ call' = [NoCall EXCEPT !.op = "load", !.outcome = status_file.state,
                              !.after = FoundBefore("load"),
                              !.ret = (load_status(status_file, now) = status)]
    /\ UNCHANGED <<status, status_file, data_file, data_mtime, count_file, now, loop>>

NextWrite ==
    \/ SnapshotOpen
    \/ SnapshotDump
    \/ StatusOpen
    \/ StatusDump
    \/ ReadSnapshot
    \/ ReadStatus
    \/ Tick

SpecWrite == Init /\ [][NextWrite]_vars

\* A step that is one of the agent's operations (Tick moves the clock, Restart
\* leaves the "init" record).
OpStep == now' = now /\ call'.op # "init"

\* ================================================================ claims
Persisted(file, st) == file = File(<<status_data(st)>>)
Issued(query, c) == \E i \in 1..Len(c.calls) : c.calls[i] = query
\* The probe of call c answered with a count the agent could parse.
Parsed(c) == c.probe.kind = "ok" /\ parse_count(File(c.probe.body)).ok
ProbeCount(c) == parse_count(File(c.probe.body)).count

\* C1: every check_for_updates whose probe returns the count c leaves
\* current_record_count = c and previous_record_count = the current count held
\* before the call; along a sequence of calls with counts c1, c2, ... that is
\* current = c_k and previous = c_(k-1).
C1_CountRotation ==
    [][(OpStep /\ call'.op = "check" /\ Parsed(call'))
         => /\ status'.current_record_count = ProbeCount(call')
            /\ status'.previous_record_count = status.current_record_count]_vars

C1_Witness ==
    /\ call.op = "check" /\ Parsed(call) /\ ProbeCount(call) = 0
    /\ status.current_record_count = 0
    /\ status.previous_record_count = 1

\* C2: after a check_for_updates that completes, update_available is
\* (current_record_count > previous_record_count) and is the value returned;
\* from counts 0/0 a probe answering a positive count returns true.
C2_UpdateAvailable ==
    [][(OpStep /\ call'.op = "check" /\ call'.outcome = "ok")
         => /\ status'.update_available
                 = (status'.current_record_count > status'.previous_record_count)
            /\ call'.ret = status'.update_available
            /\ (status.current_record_count = 0 /\ status.previous_record_count = 0
                  /\ ProbeCount(call') > 0) => call'.ret]_vars

C2_Witness ==
    /\ call.op = "check" /\ call.outcome = "ok" /\ call.ret
    /\ status.previous_record_count = 0
    /\ status.current_record_count = 1
    /\ status.update_available

\* C3: a check_for_updates whose transport call fails, or whose count response
\* cannot be parsed, leaves both counts as they were, sets last_error, saves the
\* status and returns false.
C3_ProbeFailureIsolation ==
    [][(OpStep /\ call'.op = "check" /\ ~Parsed(call'))
         => /\ status'.current_record_count = status.current_record_count
            /\ status'.previous_record_count = status.previous_record_count
            /\ status'.last_error # None
            /\ Persisted(status_file', status')
            /\ ~call'.raised /\ call'.ret = FALSE]_vars

C3_Witness ==
    /\ call.op = "check" /\ call.probe.kind = "request_error"
    /\ status.current_record_count = 1
    /\ status.last_error = "Failed to check record count"
    /\ ~call.ret

\* C4: get_latest_data on a missing snapshot file always issues the full-extract
\* transport call.
C4_AbsentSnapshotFetches ==
    [][(OpStep /\ call'.op = "get" /\ data_file.state = "absent")
         => Issued("all_data", call')]_vars

\* C5 as stated: of two consecutive download_latest_data(force=False) calls the
\* second issues no transport call and returns true, and the two issue at most
\* one fetch together.
C5_FetchIdempotence ==
    (call.op = "download" /\ ~call.force /\ call.after # "none")
      => /\ call.calls = <<>>
         /\ call.ret
         /\ (IF call.after = "skipped" THEN 0 ELSE 1) + Len(call.calls) <= 1

\* C5 amended: that holds when the first call returned true (it skipped, or its
\* fetch succeeded); after a first call whose fetch failed the second call
\* fetches again.
C5_FetchIdempotenceAfterSuccess ==
    /\ (call.op = "download" /\ ~call.force /\ call.after \in {"skipped", "ok"})
         => /\ call.calls = <<>>
            /\ call.ret /\ ~call.raised
            /\ call.outcome = "skipped"
    /\ (call.op = "download" /\ ~call.force /\ call.after = "failed")
         => call.calls = <<"all_data">>

C5_Witness ==
    /\ call.op = "download" /\ ~call.force
    /\ call.after = "ok"
    /\ call.outcome = "skipped" /\ call.ret

\* C6: download_latest_data(force=True) issues the full-extract transport call
\* whatever update_available is.
C6_ForceAlwaysFetches ==
    (call.op = "download" /\ call.force) => call.calls = <<"all_data">>

C6_Witness ==
    /\ call.op = "download" /\ call.force
    /\ call.outcome = "failed"
    /\ ~status.update_available
    /\ call.calls = <<"all_data">>

\* C7: download_latest_data(force=False) with update_available false returns
\* true, issues no transport call and changes neither the status, nor the
\* status file, nor the snapshot.
C7_SkipIsNoOp ==
    [][(OpStep /\ call'.op = "download" /\ ~call'.force /\ ~status.update_available)
         => /\ call'.ret /\ ~call'.raised
            /\ call'.calls = <<>>
            /\ status' = status
            /\ status_file' = status_file
            /\ data_file' = data_file /\ data_mtime' = data_mtime
            /\ count_file' = count_file]_vars

C7_Witness ==
    /\ call.op = "download" /\ ~call.force /\ call.outcome = "skipped"
    /\ call.ret /\ ~status.update_available
    /\ data_file.state = "complete"

\* C8: after a download_latest_data whose fetch succeeds, update_available is
\* false, last_update is the time of the fetch, last_error is null, the status
\* is saved and the call returns true, forced or not.
C8_FetchSuccess ==
    [][(OpStep /\ call'.op = "download" /\ call'.fetch.kind = "ok")
         => /\ ~status'.update_available
            /\ status'.last_update = now
            /\ status'.last_error = None
            /\ Persisted(status_file', status')
            /\ call'.ret /\ ~call'.raised]_vars

C8_Witness ==
    /\ call.op = "download" /\ call.force /\ call.fetch.kind = "ok"
    /\ status.current_record_count = status.previous_record_count
    /\ status.last_update = now /\ now > 1
    /\ ~status.update_available /\ call.ret

\* C9: a download_latest_data whose fetch fails sets last_error, saves the
\* status, returns false, and leaves the snapshot file and both counts as they
\* were.
C9_FetchFailureIsolation ==
    [][(OpStep /\ call'.op = "download" /\ call'.fetch.kind \in {"request_error", "write_error"})
         => /\ status'.last_error # None
            /\ Persisted(status_file', status')
            /\ call'.ret = FALSE /\ ~call'.raised
            /\ data_file' = data_file
            /\ status'.current_record_count = status.current_record_count
            /\ status'.previous_record_count = status.previous_record_count]_vars

\* C10: with a snapshot file no older than max_age_hours and update_available
\* false, get_latest_data issues no full-extract call, leaves the file alone and
\* returns what the file holds (absent when the file cannot be parsed).
C10_CacheHit ==
    [][(OpStep /\ call'.op = "get" /\ data_file.state # "absent"
          /\ (now - data_mtime) <= call'.max_age_hours /\ ~status.update_available)
         => /\ ~Issued("all_data", call')
            /\ data_file' = data_file /\ data_mtime' = data_mtime
            /\ call'.data = load_data(data_file)
            /\ ~call'.raised]_vars

C10_Witness ==
    /\ call.op = "get" /\ call.outcome = "cached" /\ call.calls = <<>>
    /\ data_file.state = "complete" /\ ~call.data.absent
    /\ call.data.rows = data_file.content
    /\ now - data_mtime = 1 /\ call.max_age_hours = 1
    /\ ~status.update_available

\* C11: when the snapshot exists but is older than max_age_hours and the probe
\* of get_latest_data reports no new records, no fetch is issued and the
\* existing (stale) snapshot is loaded and returned.
C11_StaleWithoutGrowthServesCache ==
    [][(OpStep /\ call'.op = "get" /\ data_file.state # "absent"
          /\ (now - data_mtime) > call'.max_age_hours
          /\ Parsed(call') /\ ProbeCount(call') <= status.current_record_count)
         => /\ call'.calls = <<"count_records">>
            /\ data_file' = data_file /\ data_mtime' = data_mtime
            /\ call'.data = load_data(data_file)
            /\ ~call'.raised]_vars

C11_Witness ==
    /\ call.op = "get" /\ call.calls = <<"count_records">> /\ Parsed(call)
    /\ ~status.update_available
    /\ data_file.state = "complete" /\ ~call.data.absent
    /\ call.data.rows = data_file.content
    /\ (now - data_mtime) > call.max_age_hours

\* C12: get_latest_data never raises: whatever the probe, the fetch, the
\* status save and the snapshot load do, it returns the complete parsed
\* snapshot or None, and None after a failed fetch or an unparseable snapshot.
C12_GetNeverRaises ==
    call.op = "get"
        => /\ ~call.raised
           /\ \/ call.data = NoData
              \/ /\ data_file.state = "complete"
                 /\ call.data = [absent |-> FALSE, rows |-> data_file.content]
           /\ (call.fetch.kind \in {"request_error", "write_error"}) => call.data = NoData
           /\ data_file.state # "complete" => call.data = NoData

\* A step that constructs a new agent on the files as they are.
RestartStep == call'.op = "init" /\ now' = now /\ status_file' = status_file

\* C13: constructing an agent when agent_status.json is missing or cannot be
\* parsed never raises and yields the default status: both counts 0,
\* update_available true, last_update the never sentinel, last_check the
\* time of construction, last_error null.
C13_DefaultStatus ==
    [][(RestartStep /\ status_file.state # "complete")
         => status' = [last_check |-> now, last_update |-> datetime_min,
                       current_record_count |-> 0, previous_record_count |-> 0,
                       update_available |-> TRUE, last_error |-> None]]_vars

C13_Witness ==
    /\ call.op = "init" /\ status_file = Truncated
    /\ now = 2 /\ status.last_check = 2
    /\ status.current_record_count = 0 /\ status.update_available

\* C14: on an agent constructed without a persisted status record, the first
\* download_latest_data(force=False), before any check_for_updates, issues the
\* transport fetch: the default status has update_available true.
C14_FirstDownloadFetches ==
    [][(OpStep /\ call.op = "init" /\ status_file.state # "complete"
          /\ call'.op = "download" /\ ~call'.force)
         => /\ call'.calls = <<"all_data">>
            /\ call'.fetch.kind # "none"]_vars

C14_Witness ==
    /\ call.op = "download" /\ ~call.force /\ call.calls = <<"all_data">>
    /\ call.fetch.kind = "ok" /\ data_file.state = "complete"
    /\ status.current_record_count = 0 /\ status.previous_record_count = 0
    /\ status.last_check = 1 /\ status.last_update = 2

\* C15: whenever check_for_updates or download_latest_data has returned, the
\* record in agent_status.json equals the in-memory status field by field, and
\* an agent constructed afterwards loads exactly that status.
C15_StatusPersisted ==
    (call.op \in {"check", "download"} /\ ~call.raised)
        => /\ status_file = File(<<[last_check |-> isoformat(status.last_check),
                                    last_update |-> isoformat(status.last_update),
                                    current_record_count |-> status.current_record_count,
                                    previous_record_count |-> status.previous_record_count,
                                    update_available |-> status.update_available,
                                    last_error |-> status.last_error]>>)
           /\ load_status(status_file, now) = status

C15_Witness ==
    /\ call.op = "download" /\ call.outcome = "failed"
    /\ status.last_error = "Failed to download data"
    /\ status_file.state = "complete"
    /\ status_file.content[1].last_error = "Failed to download data"
    /\ status_file.content[1].last_check = isoformat(status.last_check)
    /\ status.last_check = 2

\* A step of an operation that did not run the probe.
NoProbeStep == OpStep /\ call'.probe.kind = "none"

\* C16 (as stated): update_available is written only by check_for_updates; no
\* operation that does not run the probe (download_latest_data,
\* get_latest_data without its probe, validate_data, get_status) changes it.
C16_OnlyProbeWritesFlag ==
    [][NoProbeStep => status'.update_available = status.update_available]_vars

\* C16 (amended): update_available is set to true only by a probe that parsed a
\* grown count; the only other write is download_latest_data clearing it after
\* a fetch that succeeded; a failed or short-circuited download, get_latest_data
\* outside its probe and fetch, validate_data and get_status leave it unchanged.
C16_FlagWriters ==
    [][OpStep
         => /\ (~status.update_available /\ status'.update_available)
                 => (Parsed(call') /\ ProbeCount(call') > status.current_record_count)
            /\ (NoProbeStep /\ status'.update_available # status.update_available)
                 => (call'.fetch.kind = "ok" /\ ~status'.update_available)
            /\ call'.op \in {"validate", "status"}
                 => status'.update_available = status.update_available]_vars

\* A forced download cleared the flag of a status whose last probe saw growth.
C16_Witness ==
    /\ call.op = "download" /\ call.fetch.kind = "ok" /\ call.outcome = "ok"
    /\ ~status.update_available
    /\ status.current_record_count > status.previous_record_count
    /\ status.last_check = now

\* C17 (as stated): last_error is null after every check_for_updates whose
\* probe completed and every download_latest_data that returned true, and
\* non-null after every failed probe and every download_latest_data that
\* returned false.
C17_LastErrorTracksOutcome ==
    /\ (call.op = "check" /\ Parsed(call)) => status.last_error = None
    /\ (call.op = "download" /\ call.ret) => status.last_error = None
    /\ (call.op = "check" /\ ~Parsed(call)) => status.last_error # None
    /\ (call.op = "download" /\ ~call.ret) => status.last_error # None

\* C17 (amended): last_error is null after every check_for_updates whose probe
\* completed and every download_latest_data whose fetch succeeded, non-null
\* after every failed probe and every download_latest_data that returned
\* false; a short-circuited download returns true and leaves it as it was.
C17_LastErrorTracksAttempts ==
    [][OpStep
         => /\ (call'.op = "check" /\ Parsed(call')) => status'.last_error = None
            /\ (call'.op = "download" /\ call'.fetch.kind = "ok")
                 => (call'.ret /\ status'.last_error = None)
            /\ (call'.op = "check" /\ ~Parsed(call')) => status'.last_error # None
            /\ (call'.op = "download" /\ ~call'.ret) => status'.last_error # None
            /\ (call'.op = "download" /\ call'.outcome = "skipped")
                 => (call'.ret /\ status'.last_error = status.last_error)]_vars

\* A short-circuited download returned true over the error of a failed probe.
C17_Witness ==
    /\ call.op = "download" /\ call.outcome = "skipped" /\ call.ret
    /\ status.last_error = "Failed to check record count"

\* C18: last_update is the time of the most recent fetch that succeeded: it
\* changes only in an operation whose fetch succeeded, to the time of that
\* operation; no failed fetch, short-circuited download, probe, report or
\* construction changes it, so from the default status it stays the never
\* sentinel until a fetch succeeds.
C18_LastUpdateIsLastFetch ==
    [][/\ (OpStep /\ call'.fetch.kind = "ok" /\ ~call'.raised) => status'.last_update = now
       /\ status'.last_update # status.last_update
            => (OpStep /\ call'.fetch.kind = "ok" /\ status'.last_update = now)]_vars

\* Probes and a failed fetch have run at hour 2 and last_update is still the
\* never sentinel.
C18_Witness ==
    /\ call.op = "download" /\ call.fetch.kind \in {"request_error", "write_error"}
    /\ status.last_check = 2 /\ now = 2
    /\ status.current_record_count > 0
    /\ status.last_update = datetime_min

\* C19: in each tick of the recurring loops (_scheduled_check under
\* run_scheduler, CMSDataService.start) the probe runs first, and the fetcher
\* runs in that tick only when that tick's probe returned true and auto_update
\* is set; no fetch is started in a tick whose probe returned false.
C19_FetchOnlyAfterTrueProbe ==
    [][/\ (loop.pc = "check" /\ loop'.pc # "check")
            => (call'.op = "check" /\ call'.calls = <<"count_records">>)
       /\ (loop'.pc = "fetch" /\ loop.pc # "fetch")
            => /\ loop.pc = "check" /\ call'.op = "check"
               /\ call'.ret /\ ~call'.raised /\ loop.auto_update
       /\ (loop.pc = "fetch" /\ loop'.pc # "fetch")
            => /\ call.op = "check" /\ call.ret
               /\ call'.op = "download" /\ ~call'.force
       /\ (call'.op = "download" /\ call' # call) => loop.pc = "fetch"]_vars

\* A service tick fetched after its probe, and a scheduler tick whose probe
\* returned true fetched nothing because auto_update was off.
C19_Witness ==
    \/ /\ loop.mode = "service" /\ loop.pc = "sleep"
       /\ call.op = "download" /\ call.fetch.kind = "ok"
       /\ status.current_record_count > status.previous_record_count
    \/ /\ loop.mode = "scheduler" /\ loop.pc = "sleep" /\ ~loop.auto_update
       /\ call.op = "check" /\ call.ret /\ status.update_available

\* C20: in CMSDataService.start an exception raised by the probe or the fetch
\* of a tick is caught at the loop boundary; the loop sleeps the cooldown and,
\* unless the service has been stopped, starts a further tick afterwards.
C20_LoopFailureIsolation ==
    /\ [][(loop.mode = "service" /\ call'.raised /\ loop.pc \in {"check", "fetch"}
             /\ loop'.pc # loop.pc)
            => loop'.pc = "cooldown"]_vars
    /\ [][(loop.pc = "cooldown" /\ loop'.pc # "cooldown") => loop'.pc = "test"]_vars
    /\ (loop.pc = "cooldown") ~> (loop.pc = "check" \/ ~loop.running)

\* The probe of a tick raised, the service is in its cooldown and still running.
C20_Witness ==
    /\ loop.mode = "service" /\ loop.pc = "cooldown" /\ loop.running
    /\ call.op = "check" /\ call.raised

\* C21: once stop() has been called on a service whose start() was invoked,
\* the loop begins no further tick (no probe starts), and a tick in progress
\* runs to its end: the fetch its probe asked for is still made and the loop
\* reaches its sleep or its cooldown.
C21_CooperativeStop ==
    [][loop.stopped
         => /\ ~(loop.pc # "check" /\ loop'.pc = "check")
            /\ loop.pc = "check" => loop'.pc \in {"check", "fetch", "sleep", "cooldown"}
            /\ loop.pc = "fetch" => loop'.pc \in {"fetch", "sleep", "cooldown"}]_vars

\* C22: validate_data and get_status are read-only: neither changes a field of
\* the status, the persisted status record or the snapshot file, whether the
\* snapshot is absent, unparseable or valid.
C22_ReportsAreReadOnly ==
    [][(OpStep /\ call'.op \in {"validate", "status"})
         => UNCHANGED <<status, status_file, data_file, data_mtime, count_file>>]_vars

\* validate_data has reported on a snapshot a failed fetch left truncated.
C22_Witness ==
    /\ call.op = "validate" /\ ~call.ret
    /\ data_file = Truncated /\ data_mtime = 2
    /\ status.last_error = "Failed to download data"

\* The records among the first ten of the snapshot that lack a required field.
LackingInSample(file) ==
    { i \in 1..Len(file.content) :
        i <= 10 /\ ~(RequiredFields \subseteq DOMAIN file.content[i]) }

\* C23 (as stated): validate_data reports valid=false, with a diagnostic,
\* exactly when the snapshot is absent or cannot be parsed as JSON; for a
\* parseable snapshot it reports valid=true, and has_required_fields=false
\* whenever one of the first 10 records lacks a required field.
C23_ValidExactlyWhenParseable ==
    call.op = "validate"
        => /\ call.report.valid <=> data_file.state \in {"complete", "object"}
           /\ call.ret = call.report.valid
           /\ ~call.report.valid => call.report.error # None
           /\ (call.report.valid /\ LackingInSample(data_file) # {})
                => ~call.report.has_required_fields

\* C23 (amended): validate_data reports valid=false, with a diagnostic,
\* exactly when the snapshot is absent, cannot be parsed as JSON, or parses to
\* a document that is not a list of records; for a list of records it reports
\* valid=true, and has_required_fields=false whenever one of the first 10
\* records lacks a required field.
C23_ValidExactlyWhenRecordList ==
    call.op = "validate"
        => /\ call.report.valid <=> data_file.state = "complete"
           /\ call.ret = call.report.valid
           /\ ~call.report.valid => call.report.error # None
           /\ (call.report.valid /\ LackingInSample(data_file) # {})
                => ~call.report.has_required_fields

\* Two of the ten sampled records lack a field: valid, fields not all present.
C23_Witness ==
    /\ call.op = "validate" /\ data_file.state = "complete"
    /\ Len(data_file.content) = 10
    /\ Cardinality(LackingInSample(data_file)) = 2
    /\ 10 \in LackingInSample(data_file)
    /\ call.report.valid /\ ~call.report.has_required_fields
    /\ call.report.record_count = 10

\* C24: a reader of the snapshot file or of the status file, reading while
\* download_latest_data or a status save is writing it, sees the complete
\* previous contents or the complete new contents, never an empty or partial
\* file: a reader that found the file complete finds it complete when it
\* reads again.
C24_AtomicWrites ==
    (call.op \in {"validate", "load"} /\ call.after = "complete")
        => call.outcome = "complete"

\* The transport calls an operation made.
Attempts(c) == Len(c.calls)

\* C25: when the transport call of check_for_updates or download_latest_data
\* fails, the operation makes it again, up to max_retries attempts, before it
\* reports the failure: an operation that reports a failed transport call has
\* made max_retries attempts.
C25_RetryOnFailure ==
    /\ (call.op = "check" /\ call.probe.kind \in {"request_error", "write_error"})
         => Attempts(call) = max_retries
    /\ (call.op = "download" /\ call.fetch.kind \in {"request_error", "write_error"})
         => Attempts(call) = max_retries

\* C26: a failure of the agent's own file operations (reading the scratch
\* file, writing the status record, in the operation or in its failure
\* handler) never escapes check_for_updates or download_latest_data: the call
\* returns a boolean, and a check_for_updates that returns false has left both
\* counts unchanged.
C26_LocalFailuresContained ==
    [][(OpStep /\ call'.op \in {"check", "download"})
         => /\ ~call'.raised
            /\ (call'.op = "check" /\ ~call'.ret /\ call'.outcome = "error")
                 => /\ status'.current_record_count = status.current_record_count
                    /\ status'.previous_record_count = status.previous_record_count]_vars

\* C27: discarding the scratch file is best-effort: when the transport call
\* and the parse of the probe succeed and only the removal of the scratch file
\* can fail, check_for_updates rotates the counts, recomputes
\* update_available, clears last_error and returns update_available.
C27_ScratchRemovalBestEffort ==
    [][(OpStep /\ call'.op = "check" /\ Parsed(call'))
         => /\ status'.current_record_count = ProbeCount(call')
            /\ status'.previous_record_count = status.current_record_count
            /\ status'.update_available = (ProbeCount(call') > status.current_record_count)
            /\ status'.last_error = None
            /\ call'.ret = status'.update_available]_vars

\* C28: an exception raised while a scheduled check runs (_scheduled_check
\* called from schedule.run_pending) does not end run_scheduler: the loop goes
\* on to its sleep and later scheduled checks still run.
C28_SchedulerFailureIsolation ==
    [][(loop.mode = "scheduler" /\ loop.pc \in {"check", "fetch"} /\ loop'.pc # loop.pc)
         => loop'.pc \in {"fetch", "sleep"}]_vars

\* C29: a detected update is not lost: once a probe that saw the count grow
\* has set update_available, the flag stays set until a fetch succeeds, so
\* that after a failed fetch a later tick fetches again even when the count
\* of the source has not changed.
C29_UpdateNotLost ==
    [][(/\ status.update_available
        /\ status.current_record_count > status.previous_record_count
        /\ call'.fetch.kind # "ok")
         => status'.update_available]_vars

\* A tick of start() ends without an exception: the try block reaches the
\* sleep that follows the check and the conditional fetch.
TickEnds ==
    /\ loop.mode = "service" /\ loop.pc \in {"check", "fetch"}
    /\ loop'.pc = "sleep"

\* C30: at the end of every tick of CMSDataService.start that completes
\* without an exception, update_available implies that last_error is
\* non-null: the flag is left set only by a tick whose check_for_updates or
\* whose download_latest_data returned False.
C30_FlagAtTickEndImpliesError ==
    [][(TickEnds /\ status'.update_available)
         => /\ status'.last_error # None
            /\ call'.ret = FALSE]_vars

\* A tick whose probe saw the count grow and whose fetch failed has ended
\* with the flag set and the error recorded.
C30_Witness ==
    ~(/\ loop.mode = "service" /\ loop.pc = "sleep"
      /\ call.op = "download" /\ call.ret = FALSE /\ ~call.raised
      /\ status.update_available
      /\ status.last_error = "Failed to download data")

====
